---- MODULE Spec2Model ----
(***************************************************************************)
(* Model of the Tree-sitter Java indexer (call_graph package):             *)
(*   JavaIndexer.index_source / _walk_and_index / _index_method /          *)
(*   _collect_calls_in_method (indexer.py), index_directory                *)
(*   (inputs/directory_scanning.py) and to_json (outputs/output.py).       *)
(*                                                                         *)
(* Strings are TLA+ strings, Optional[str] is <<>> (None) or <<s>>.        *)
(* A Python dict is an insertion-ordered sequence of [key, value] records. *)
(* A syntax tree node is a record [type, field, text, start, children];    *)
(* a node is addressed by its path (the child indexes from the root).      *)
(***************************************************************************)
EXTENDS Integers, Sequences, FiniteSets, TLC

\* ---------------------------------------------------------------- bounds
\* index_source calls made directly on one indexer
MaxUnits == 2
\* files os.walk yields in one index_directory call
MaxFiles == 2
\* depth of _walk_and_index recursion at which the interpreter raises
\* RecursionError (sys.getrecursionlimit(), 1000 by default)
RecursionLimit == 8

\* ------------------------------------------------------------- Optional
None == <<>>

Some(x) == <<x>>

\* Python truthiness of an Optional[str]: None and "" are falsy
Truthy(o) == o # None /\ o[1] # ""

\* ------------------------------------------------------------ dict (ordered)
DictKeys(d) == [i \in 1..Len(d) |-> d[i].key]

DictHas(d, k) == \E i \in 1..Len(d) : d[i].key = k

DictIndex(d, k) == CHOOSE i \in 1..Len(d) : d[i].key = k

DictGet(d, k) == d[DictIndex(d, k)].value

\* d[k] = v : replaces in place when k is present, else inserts at the end
DictSet(d, k, v) ==
    IF DictHas(d, k)
    THEN [d EXCEPT ![DictIndex(d, k)] = [key |-> k, value |-> v]]
    ELSE Append(d, [key |-> k, value |-> v])

\* ------------------------------------------------------------ syntax trees
RawNode(type, field, text, children) ==
    [type |-> type, field |-> field, text |-> text, children |-> children]

Ident(field, text) == RawNode("identifier", field, text, <<>>)

ClassDecl(name, body) ==
    RawNode("class_declaration", "", "", <<Ident("name", name)>> \o body)

AnonClassDecl(body) == RawNode("class_declaration", "", "", body)

MethodDecl(name, body) ==
    RawNode("method_declaration", "", "",
            <<Ident("type", "void"), Ident("name", name),
              RawNode("formal_parameters", "parameters", "", <<>>)>> \o body)

CtorDecl(name, body) ==
    RawNode("constructor_declaration", "", "",
            <<Ident("name", name),
              RawNode("formal_parameters", "parameters", "",
                      <<RawNode("parameter", "", "",
                                <<Ident("type", "T"), Ident("name", "p")>>)>>)>>
            \o body)

Invoke(recv, name, args) ==
    RawNode("method_invocation", "", "",
            (IF recv = None THEN <<>> ELSE <<Ident("object", recv[1])>>)
            \o <<Ident("name", name)>> \o args)

New(type, args) ==
    RawNode("object_creation_expression", "", "",
            <<Ident("type", type)>> \o args)

Block(kids) == RawNode("block", "", "", kids)

PackageDecl(name) ==
    RawNode("package_declaration", "", "", <<Ident("name", name)>>)

Program(kids) == RawNode("program", "", "", kids)

\* The parser gives every node its start point; nodes get increasing
\* (line, col) in source order, which is the pre-order of the tree.
RECURSIVE PlaceNode(_, _, _), PlaceKids(_, _, _)
PlaceKids(kids, line, col) ==
    IF kids = <<>>
    THEN [nodes |-> <<>>, next |-> line]
    ELSE LET h == PlaceNode(Head(kids), line, col)
             t == PlaceKids(Tail(kids), h.next, col)
         IN [nodes |-> <<h.node>> \o t.nodes, next |-> t.next]

PlaceNode(n, line, col) ==
    LET k == PlaceKids(n.children, line + 1, col + 1)
    IN [node |-> [type |-> n.type, field |-> n.field, text |-> n.text,
                  start |-> <<line, col>>, children |-> k.nodes],
        next |-> k.next]

\* parse(source) -> tree.root_node
parse(raw) == PlaceNode(raw, 0, 0).node

RECURSIVE NodeAt(_, _)
NodeAt(n, path) ==
    IF path = <<>> THEN n ELSE NodeAt(n.children[Head(path)], Tail(path))

ChildPaths(path, node) == [i \in 1..Len(node.children) |-> Append(path, i)]

\* node.child_by_field_name(f): the first child in role f, or None
ChildByFieldName(node, f) ==
    LET idx == {i \in 1..Len(node.children) : node.children[i].field = f}
    IN IF idx = {} THEN None
       ELSE Some(node.children[CHOOSE i \in idx : \A j \in idx : i <= j])

node_text(node) == node.text

node_point(node) == node.start

\* ------------------------------------------------------------ inputs
\* package a; class B { B(T p) {}  void f() { r.g(); h(new T() { void q() { z(); } }); }
\*                      class C { void f() { g(); } } }
UnitMain ==
    Program(<<
        PackageDecl("a"),
        ClassDecl("B", <<
            CtorDecl("B", <<>>),
            MethodDecl("f", <<
                Invoke(Some("r"), "g", <<>>),
                Invoke(None, "h", <<New("T", <<MethodDecl("q", <<Invoke(None, "z", <<>>)>>)>>)>>)
            >>),
            ClassDecl("C", <<MethodDecl("f", <<Invoke(None, "g", <<>>)>>)>>)
        >>)
    >>)

\* package a.B; class C { void f() {}  void g() { x(); }  void f() {} }
UnitOverloads ==
    Program(<<
        PackageDecl("a.B"),
        ClassDecl("C", <<
            MethodDecl("f", <<>>),
            MethodDecl("g", <<Invoke(None, "x", <<>>)>>),
            MethodDecl("f", <<>>)
        >>)
    >>)

\* no package; a method outside any class, a class declaration without a
\* name, and class B declared twice, the second time with a local class L
\* in the body of its method g
UnitAnomalies ==
    Program(<<
        MethodDecl("m", <<Invoke(None, "k", <<>>)>>),
        AnonClassDecl(<<MethodDecl("n", <<>>), ClassDecl("D", <<>>)>>),
        ClassDecl("B", <<MethodDecl("f", <<>>)>>),
        ClassDecl("B", <<MethodDecl("g", <<
            New("T", <<>>),
            ClassDecl("L", <<MethodDecl("h", <<Invoke(None, "k", <<>>)>>)>>)
        >>)>>)
    >>)

\* package a; class B { void f() {}  class D {}  { { { { { { { { class E {} } } } } } } } } }
UnitDeep ==
    Program(<<
        PackageDecl("a"),
        ClassDecl("B", <<
            MethodDecl("f", <<>>),
            ClassDecl("D", <<>>),
            Block(<<Block(<<Block(<<Block(<<Block(<<Block(<<Block(<<Block(<<
                ClassDecl("E", <<>>)
            >>)>>)>>)>>)>>)>>)>>)>>)
        >>)
    >>)

\* encodable = FALSE: source.encode("utf-8") raises (a lone surrogate)
Units ==
    << [encodable |-> TRUE,  root |-> parse(UnitMain)],
       [encodable |-> TRUE,  root |-> parse(UnitOverloads)],
       [encodable |-> TRUE,  root |-> parse(UnitAnomalies)],
       [encodable |-> TRUE,  root |-> parse(UnitDeep)],
       [encodable |-> FALSE, root |-> parse(Program(<<>>))] >>

UnitIds == 1..Len(Units)

Root(u) == Units[u].root

\* what os.walk can yield: a file that is not .java, a .java file that cannot
\* be read, a readable .java file holding one of the units
Files ==
    {[java |-> FALSE, readable |-> TRUE, unit |-> 1],
     [java |-> TRUE, readable |-> FALSE, unit |-> 1]}
    \cup {[java |-> TRUE, readable |-> TRUE, unit |-> u] : u \in UnitIds}

RECURSIVE SeqsUpTo(_, _)
SeqsUpTo(S, n) ==
    IF n = 0 THEN {<<>>}
    ELSE LET shorter == SeqsUpTo(S, n - 1)
         IN shorter \cup {Append(q, x) : q \in shorter, x \in S}

DirListings == SeqsUpTo(Files, MaxFiles) \ {<<>>}

\* ------------------------------------------------------------ state
VARIABLES
    packages,      \* JavaIndexer.packages: set[str]
    classes,       \* JavaIndexer.classes: dict fqcn -> ClassInfo
    pc,            \* "idle", "walk" (in _walk_and_index), "collect" (in
                   \* _collect_calls_in_method), "dir" (in index_directory's loop)
    mode,          \* who called index_source: "direct" or "dir"
    unit,          \* the unit index_source was called on
    pkg,           \* index_source's current_package
    class_stack,   \* index_source's class_stack: <<simple, line, col>> frames
    frames,        \* the activations of _walk_and_index, outermost first
    method_info,   \* _index_method's method_info
    stack,         \* _collect_calls_in_method's worklist
    raised,        \* the last index_source call raised
    dirFiles,      \* the files os.walk yields to index_directory, in order
    dirIdx,        \* the file index_directory is at
    warnings,      \* the files a [WARN] line was printed for
    dirStatus,     \* "none", "running", "returned", "propagated"
    exported,      \* what the last to_json call returned (before json.dumps)
    calls,         \* history: number of index_source calls so far
    declOf,        \* history: per classes entry, the declaration that created it
    methodLog,     \* history: the MethodInfo records in the order line 202 stored them
    before,        \* history: the registry when the last index_source call began
    visited,       \* history: the nodes the worklist loop has popped, in order
    passed         \* history: the files index_directory passed to index_source

vars ==
    <<packages, classes, pc, mode, unit, pkg, class_stack, frames, method_info,
      stack, raised, dirFiles, dirIdx, warnings, dirStatus, exported, calls,
      declOf, methodLog, before, visited, passed>>

dirVars == <<dirIdx, warnings, dirStatus>>

NoMethod ==
    [name |-> "", params |-> <<>>, return_type |-> None, line |-> 0, col |-> 0,
     calls |-> <<>>]

Init ==
    /\ packages = {}
    /\ classes = <<>>
    /\ pc = "idle"
    /\ mode = "direct"
    /\ unit = 1
    /\ pkg = None
    /\ class_stack = <<>>
    /\ frames = <<>>
    /\ method_info = NoMethod
    /\ stack = <<>>
    /\ raised = FALSE
    /\ dirFiles = <<>>
    /\ dirIdx = 1
    /\ warnings = <<>>
    /\ dirStatus = "none"
    /\ exported = None
    /\ calls = 0
    /\ declOf = <<>>
    /\ methodLog = <<>>
    /\ before = [packages |-> {}, classes |-> <<>>]
    /\ visited = <<>>
    /\ passed = <<>>

\* ------------------------------------------------------------ helpers of the indexer
RECURSIVE Join(_, _)
Join(names, sep) ==
    IF names = <<>> THEN ""
    ELSE IF Len(names) = 1 THEN names[1]
    ELSE names[1] \o sep \o Join(Tail(names), sep)

\* [c[0] for c in class_stack]
Names(cs) == [i \in 1..Len(cs) |-> cs[i][1]]

FqcnNoPackage(p, class_names) == Join(class_names, ".")

\* _fqcn
_fqcn(p, class_names) ==
    (IF Truthy(p) THEN p[1] \o "." ELSE "") \o Join(class_names, ".")

\* _find_package: the first package_declaration child of the root that has a name
_find_package(root) ==
    LET idx == {i \in 1..Len(root.children) :
                    /\ root.children[i].type = "package_declaration"
                    /\ ChildByFieldName(root.children[i], "name") # None}
    IN IF idx = {} THEN None
       ELSE LET first == CHOOSE i \in idx : \A j \in idx : i <= j
            IN Some(node_text(ChildByFieldName(root.children[first], "name")[1]))

NewClassInfo(simple, fqcn, pt) ==
    [simple_name |-> simple, fqcn |-> fqcn, line |-> pt[1], col |-> pt[2],
     methods |-> <<>>]

RegisterClassOverwrite(cls, fqcn, simple, pt) ==
    DictSet(cls, fqcn, NewClassInfo(simple, fqcn, pt))

\* "Register class if not present"
RegisterClass(cls, fqcn, simple, pt) ==
    IF DictHas(cls, fqcn) THEN cls
    ELSE DictSet(cls, fqcn, NewClassInfo(simple, fqcn, pt))

PopFrameNever(cs) == cs

\* class_stack.pop()
PopFrame(cs) == SubSeq(cs, 1, Len(cs) - 1)

MethodLike == {"method_declaration", "constructor_declaration"}

SkipsMethodNever(cs) == FALSE

\* "if not class_stack: return"
SkipsMethod(cs) == cs = <<>>

ParamText(p) ==
    LET p_type == ChildByFieldName(p, "type")
        p_name == ChildByFieldName(p, "name")
    IN (IF p_type # None THEN node_text(p_type[1]) ELSE "?") \o " "
       \o (IF p_name # None THEN node_text(p_name[1]) ELSE "param")

Params(node) ==
    LET params_node == ChildByFieldName(node, "parameters")
    IN IF params_node = None THEN <<>>
       ELSE LET ps == SelectSeq(params_node[1].children,
                                LAMBDA c : c.type = "parameter")
            IN [i \in 1..Len(ps) |-> ParamText(ps[i])]

\* the MethodInfo _index_method builds before it collects the calls
NewMethodInfo(node) ==
    LET name_node == ChildByFieldName(node, "name")
        ret_node == ChildByFieldName(node, "type")
    IN [name |-> IF name_node # None THEN node_text(name_node[1]) ELSE "<anonymous>",
        params |-> Params(node),
        return_type |-> IF node.type = "method_declaration" /\ ret_node # None
                        THEN Some(node_text(ret_node[1])) ELSE None,
        line |-> node_point(node)[1],
        col |-> node_point(node)[2],
        calls |-> <<>>]

InvocationCall(node) ==
    LET name_node == ChildByFieldName(node, "name")
        obj_node == ChildByFieldName(node, "object")
    IN [name |-> IF name_node # None THEN node_text(name_node[1]) ELSE "<unknown>",
        receiver |-> IF obj_node # None THEN Some(node_text(obj_node[1])) ELSE None,
        line |-> node_point(node)[1], col |-> node_point(node)[2]]

CreationCall(node) ==
    LET type_node == ChildByFieldName(node, "type")
    IN [name |-> "<init:"
                 \o (IF type_node # None THEN node_text(type_node[1]) ELSE "<anon>")
                 \o ">",
        receiver |-> None,
        line |-> node_point(node)[1], col |-> node_point(node)[2]]

\* the records one iteration of the worklist loop appends for `node`
RecordCalls(cs, node) ==
    LET c1 == IF node.type = "method_invocation"
              THEN Append(cs, InvocationCall(node)) ELSE cs
    IN IF node.type = "object_creation_expression"
       THEN Append(c1, CreationCall(node)) ELSE c1

ExtendFirstChildOnly(rest, path, node) ==
    IF node.children = <<>> THEN rest ELSE Append(rest, Append(path, 1))

\* stack.extend(node.children)
Extend(rest, path, node) == rest \o ChildPaths(path, node)

StoreMethodReplace(methods, name, mi) == DictSet(methods, name, <<mi>>)

StoreMethodPrepend(methods, name, mi) ==
    IF DictHas(methods, name)
    THEN DictSet(methods, name, <<mi>> \o DictGet(methods, name))
    ELSE DictSet(methods, name, <<mi>>)

\* cls.methods.setdefault(method_name, []).append(method_info)
StoreMethod(methods, name, mi) ==
    IF DictHas(methods, name)
    THEN DictSet(methods, name, Append(DictGet(methods, name), mi))
    ELSE DictSet(methods, name, <<mi>>)

\* ------------------------------------------------------------ index_directory's handler
\* directory_scanning.py imports os and JavaIndexer only: the name sys that the
\* except clause reads (file=sys.stderr) is not bound in the module
SysImported == FALSE

\* except Exception as e: print(f"[WARN] ...", file=sys.stderr)
\* The arguments are evaluated before print is called: with sys unbound the
\* NameError leaves the handler, the loops and index_directory.
ExceptHandler ==
    IF SysImported
    THEN /\ warnings' = Append(warnings, dirIdx)
         /\ dirIdx' = dirIdx + 1
         /\ pc' = "dir"
         /\ dirStatus' = dirStatus
    ELSE /\ dirStatus' = "propagated"
         /\ pc' = "idle"
         /\ UNCHANGED <<warnings, dirIdx>>

\* an exception leaves index_source: to the caller of a direct call, or to
\* the try block of index_directory
Propagate(m) ==
    /\ raised' = TRUE
    /\ frames' = <<>>
    /\ IF m = "direct"
       THEN pc' = "idle" /\ UNCHANGED dirVars
       ELSE ExceptHandler

\* ------------------------------------------------------------ _walk_and_index
\* One call _walk_and_index(node) up to its loop over the children: `fr` are
\* the caller's activations, `cs` the class stack, `path` the node.
_walk_and_index(u, p, cs, fr, path, m) ==
    LET node == NodeAt(Root(u), path)
        class_name_node == ChildByFieldName(node, "name")
        pt == node_point(node)
    IN IF Len(fr) >= RecursionLimit
       THEN \* RecursionError on the call
            /\ Propagate(m)
            /\ class_stack' = cs
            /\ UNCHANGED <<classes, declOf, method_info, stack, visited>>
       ELSE /\ raised' = FALSE
            /\ UNCHANGED dirVars
            /\ IF node.type = "class_declaration" /\ class_name_node # None
               THEN LET simple == node_text(class_name_node[1])
                        pushed == Append(cs, <<simple, pt[1], pt[2]>>)
                        fqcn == _fqcn(p, Names(pushed))
                        known == DictHas(classes, fqcn)
                    IN /\ class_stack' = pushed
                       /\ classes' = RegisterClass(classes, fqcn, simple, pt)
                       /\ declOf' = IF known THEN declOf
                                    ELSE Append(declOf, [unit |-> u, path |-> path])
                       /\ frames' = Append(fr, [path |-> path, next |-> 1,
                                                branch |-> "class",
                                                snap |-> IF known
                                                         THEN Some(DictGet(classes, fqcn))
                                                         ELSE None])
                       /\ pc' = "walk"
                       /\ UNCHANGED <<method_info, stack, visited>>
               ELSE IF node.type \in MethodLike /\ ~SkipsMethod(cs)
               THEN \* _index_method up to the call of _collect_calls_in_method
                    /\ method_info' = NewMethodInfo(node)
                    /\ stack' = <<path>>
                    /\ visited' = <<>>
                    /\ pc' = "collect"
                    /\ frames' = Append(fr, [path |-> path, next |-> 1,
                                             branch |-> "generic", snap |-> None])
                    /\ class_stack' = cs
                    /\ UNCHANGED <<classes, declOf>>
               ELSE /\ frames' = Append(fr, [path |-> path, next |-> 1,
                                             branch |-> "generic", snap |-> None])
                    /\ pc' = "walk"
                    /\ class_stack' = cs
                    /\ UNCHANGED <<classes, declOf, method_info, stack, visited>>

Top == frames[Len(frames)]

TopNode == NodeAt(Root(unit), Top.path)

\* the loop over node.children calls _walk_and_index on the next child
Descend ==
    /\ pc = "walk"
    /\ frames # <<>>
    /\ Top.next <= Len(TopNode.children)
    /\ _walk_and_index(unit, pkg, class_stack,
             [frames EXCEPT ![Len(frames)].next = Top.next + 1],
             Append(Top.path, Top.next), mode)
    /\ UNCHANGED <<packages, mode, unit, pkg, dirFiles, exported, calls,
                   methodLog, before, passed>>

\* the loop over node.children is over: pop the class frame if this call
\* pushed one, and return; the root's return is index_source's return
Return ==
    /\ pc = "walk"
    /\ frames # <<>>
    /\ Top.next > Len(TopNode.children)
    /\ frames' = SubSeq(frames, 1, Len(frames) - 1)
    /\ class_stack' = IF Top.branch = "class" THEN PopFrame(class_stack)
                      ELSE class_stack
    /\ IF Len(frames) > 1
       THEN pc' = "walk" /\ UNCHANGED dirVars
       ELSE IF mode = "direct"
       THEN pc' = "idle" /\ UNCHANGED dirVars
       ELSE pc' = "dir" /\ dirIdx' = dirIdx + 1 /\ UNCHANGED <<warnings, dirStatus>>
    /\ UNCHANGED <<packages, classes, mode, unit, pkg, method_info, stack, raised,
                   dirFiles, exported, calls, declOf, methodLog, before, visited,
                   passed>>

\* ------------------------------------------------------------ _collect_calls_in_method
\* one iteration of "while stack:"
_collect_calls_in_method ==
    /\ pc = "collect"
    /\ stack # <<>>
    /\ LET path == stack[Len(stack)]
           node == NodeAt(Root(unit), path)
           rest == SubSeq(stack, 1, Len(stack) - 1)
       IN /\ method_info' = [method_info EXCEPT
                                !.calls = RecordCalls(method_info.calls, node)]
          /\ stack' = Extend(rest, path, node)
          /\ visited' = Append(visited, path)
    /\ UNCHANGED <<packages, classes, pc, mode, unit, pkg, class_stack, frames,
                   raised, dirFiles, dirIdx, warnings, dirStatus, exported, calls,
                   declOf, methodLog, before, passed>>

\* the loop is over; _index_method stores the MethodInfo (lines 201-202)
\* and returns to _walk_and_index, which goes on with the node's children
_index_method ==
    /\ pc = "collect"
    /\ stack = <<>>
    /\ LET fqcn == _fqcn(pkg, Names(class_stack))
       IN IF ~DictHas(classes, fqcn)
          THEN \* self.classes[fqcn] raises KeyError
               /\ Propagate(mode)
               /\ UNCHANGED <<classes, methodLog>>
          ELSE LET cls == DictGet(classes, fqcn)
               IN /\ classes' = DictSet(classes, fqcn,
                                    [cls EXCEPT !.methods =
                                        StoreMethod(cls.methods, method_info.name,
                                                    method_info)])
                  /\ methodLog' = Append(methodLog,
                                         [fqcn |-> fqcn, info |-> method_info,
                                          unit |-> unit, path |-> Top.path])
                  /\ pc' = "walk"
                  /\ UNCHANGED <<frames, raised, dirIdx, warnings, dirStatus>>
    /\ method_info' = NoMethod
    /\ visited' = <<>>
    /\ UNCHANGED <<packages, mode, unit, pkg, class_stack, stack, dirFiles,
                   exported, calls, declOf, before, passed>>

\* ------------------------------------------------------------ index_source
\* index_source(source) up to and including the call _walk_and_index(root)
Begin(u, m) ==
    /\ unit' = u
    /\ mode' = m
    /\ calls' = calls + 1
    /\ before' = [packages |-> packages, classes |-> classes]
    /\ exported' = None
    /\ IF ~Units[u].encodable
       THEN \* source.encode("utf-8") raises
            /\ Propagate(m)
            /\ UNCHANGED <<packages, classes, pkg, class_stack, method_info,
                           stack, declOf, visited>>
       ELSE LET current_package == _find_package(Root(u))
            IN /\ pkg' = current_package
               /\ packages' = IF Truthy(current_package)
                              THEN packages \cup {current_package[1]}
                              ELSE packages
               /\ _walk_and_index(u, current_package, <<>>, <<>>, <<>>, m)
    /\ UNCHANGED methodLog

index_source(u) ==
    /\ pc = "idle"
    /\ dirStatus = "none"
    /\ calls < MaxUnits
    /\ Begin(u, "direct")
    /\ UNCHANGED <<dirFiles, passed>>

\* ------------------------------------------------------------ index_directory
index_directory(listing) ==
    /\ pc = "idle"
    /\ dirStatus = "none"
    /\ calls = 0
    /\ dirFiles' = listing
    /\ dirIdx' = 1
    /\ dirStatus' = "running"
    /\ pc' = "dir"
    /\ exported' = None
    /\ UNCHANGED <<packages, classes, mode, unit, pkg, class_stack, frames,
                   method_info, stack, raised, warnings, calls, declOf, methodLog,
                   before, visited, passed>>

\* os.walk is exhausted: index_directory returns
DirReturn ==
    /\ pc = "dir"
    /\ dirIdx > Len(dirFiles)
    /\ dirStatus' = "returned"
    /\ pc' = "idle"
    /\ UNCHANGED <<packages, classes, mode, unit, pkg, class_stack, frames,
                   method_info, stack, raised, dirFiles, dirIdx, warnings, exported,
                   calls, declOf, methodLog, before, visited, passed>>

\* fn.endswith(".java") is false
DirSkip ==
    /\ pc = "dir"
    /\ dirIdx <= Len(dirFiles)
    /\ ~dirFiles[dirIdx].java
    /\ dirIdx' = dirIdx + 1
    /\ UNCHANGED <<packages, classes, pc, mode, unit, pkg, class_stack, frames,
                   method_info, stack, raised, dirFiles, warnings, dirStatus,
                   exported, calls, declOf, methodLog, before, visited, passed>>

\* read_text(full) raises
DirReadFails ==
    /\ pc = "dir"
    /\ dirIdx <= Len(dirFiles)
    /\ dirFiles[dirIdx].java
    /\ ~dirFiles[dirIdx].readable
    /\ ExceptHandler
    /\ UNCHANGED <<packages, classes, mode, unit, pkg, class_stack, frames,
                   method_info, stack, raised, dirFiles, exported, calls, declOf,
                   methodLog, before, visited, passed>>

\* src = read_text(full); indexer.index_source(src, full)
DirIndex ==
    /\ pc = "dir"
    /\ dirIdx <= Len(dirFiles)
    /\ dirFiles[dirIdx].java
    /\ dirFiles[dirIdx].readable
    /\ passed' = Append(passed, dirIdx)
    /\ Begin(dirFiles[dirIdx].unit, "dir")
    /\ UNCHANGED dirFiles

\* ------------------------------------------------------------ to_json
\* sorted(): the package names of the units, in lexicographic order
PackageOrder == <<"a", "a.B">>

Sorted(S) == SelectSeq(PackageOrder, LAMBDA x : x \in S)

RECURSIVE Flatten(_)
Flatten(lists) ==
    IF lists = <<>> THEN <<>> ELSE Head(lists) \o Flatten(Tail(lists))

JsonCall(mc) ==
    [name |-> mc.name, receiver |-> mc.receiver, line |-> mc.line, col |-> mc.col]

JsonMethod(mi) ==
    [name |-> mi.name, params |-> mi.params, returnType |-> mi.return_type,
     line |-> mi.line, col |-> mi.col,
     calls |-> [i \in 1..Len(mi.calls) |-> JsonCall(mi.calls[i])]]

\* for mlist in ci.methods.values() for mi in mlist
JsonMethods(methods) ==
    LET all == Flatten([i \in 1..Len(methods) |-> methods[i].value])
    IN [i \in 1..Len(all) |-> JsonMethod(all[i])]

JsonClass(fqcn, ci) ==
    [fqcn |-> fqcn, simpleName |-> ci.simple_name, line |-> ci.line,
     col |-> ci.col, methods |-> JsonMethods(ci.methods)]

\* the dict `out` that to_json hands to json.dumps
ToJsonOut(pkgs, cls) ==
    [packages |-> Sorted(pkgs),
     classes |-> [i \in 1..Len(cls) |-> JsonClass(cls[i].key, cls[i].value)]]

to_json ==
    /\ pc = "idle"
    /\ exported = None
    /\ exported' = Some(ToJsonOut(packages, classes))
    /\ UNCHANGED <<packages, classes, pc, mode, unit, pkg, class_stack, frames,
                   method_info, stack, raised, dirFiles, dirIdx, warnings,
                   dirStatus, calls, declOf, methodLog, before, visited, passed>>

\* ------------------------------------------------------------ specification
Next ==
    \/ \E u \in UnitIds : index_source(u)
    \/ Descend
    \/ Return
    \/ _collect_calls_in_method
    \/ _index_method
    \/ \E listing \in DirListings : index_directory(listing)
    \/ DirReturn
    \/ DirSkip
    \/ DirReadFails
    \/ DirIndex
    \/ to_json

Spec == Init /\ [][Next]_vars

\* the interpreter runs a call to its end: no step of a traversal is postponed
\* forever
FairSpec == Spec /\ WF_vars(Next)

\* ------------------------------------------------------------ reading the tree
RECURSIVE PathsUnder(_, _)
\* the paths of `node` (at `path`) and of all its descendants
PathsUnder(node, path) ==
    {path} \cup UNION {PathsUnder(node.children[i], Append(path, i)) :
                          i \in 1..Len(node.children)}

AllPaths(u) == PathsUnder(Root(u), <<>>)

Subtree(u, path) == PathsUnder(NodeAt(Root(u), path), path)

IsPrefix(a, b) == Len(a) <= Len(b) /\ SubSeq(b, 1, Len(a)) = a

IsNamedClass(node) ==
    node.type = "class_declaration" /\ \E i \in 1..Len(node.children) :
                                           node.children[i].field = "name"

SimpleName(node) ==
    LET i == CHOOSE k \in 1..Len(node.children) :
                 /\ node.children[k].field = "name"
                 /\ \A j \in 1..(k - 1) : node.children[j].field # "name"
    IN node.children[i].text

RECURSIVE EnclosingClasses(_, _, _)
\* the named class declarations among the ancestors-or-self of the node at
\* `path`, outermost first, as <<simple name, line, col>>
EnclosingClasses(u, path, k) ==
    IF k > Len(path) THEN <<>>
    ELSE LET n == NodeAt(Root(u), SubSeq(path, 1, k))
         IN (IF IsNamedClass(n)
             THEN <<<<SimpleName(n), n.start[1], n.start[2]>>>>
             ELSE <<>>) \o EnclosingClasses(u, path, k + 1)

RECURSIVE DotJoin(_)
DotJoin(names) ==
    IF names = <<>> THEN ""
    ELSE IF Len(names) = 1 THEN names[1]
    ELSE DotJoin(SubSeq(names, 1, Len(names) - 1)) \o "." \o names[Len(names)]

\* the package declarations of a unit: the named package_declaration nodes
\* directly under the root
PackageDecls(u) ==
    {k \in 1..Len(Root(u).children) :
        /\ Root(u).children[k].type = "package_declaration"
        /\ \E i \in 1..Len(Root(u).children[k].children) :
               Root(u).children[k].children[i].field = "name"}

\* (package + ".") if the unit has a package, then the dot-joined nesting path
ExpectedFqcn(u, path) ==
    LET nest == EnclosingClasses(u, path, 0)
        names == [i \in 1..Len(nest) |-> nest[i][1]]
        prefix == IF PackageDecls(u) = {} THEN ""
                  ELSE SimpleName(Root(u).children[
                           CHOOSE k \in PackageDecls(u) :
                               \A j \in PackageDecls(u) : k <= j]) \o "."
    IN prefix \o DotJoin(names)

\* the node of unit u that starts at `line`
PathOfLine(u, line) ==
    CHOOSE path \in AllPaths(u) : NodeAt(Root(u), path).start[1] = line

\* the method or constructor declaration whose body the node at `path` is in:
\* its nearest method-like proper ancestor (<<-1>> when there is none)
EnclosingMethod(u, path) ==
    LET ks == {k \in 0..(Len(path) - 1) :
                  NodeAt(Root(u), SubSeq(path, 1, k)).type \in MethodLike}
    IN IF ks = {} THEN <<-1>>
       ELSE SubSeq(path, 1, CHOOSE k \in ks : \A j \in ks : j <= k)

\* the named class declaration that owns the node at `path`: its nearest
\* named-class proper ancestor (<<-1>> when there is none)
OwningClass(u, path) ==
    LET ks == {k \in 0..(Len(path) - 1) :
                  IsNamedClass(NodeAt(Root(u), SubSeq(path, 1, k)))}
    IN IF ks = {} THEN <<-1>>
       ELSE SubSeq(path, 1, CHOOSE k \in ks : \A j \in ks : j <= k)

AllMethods(methods) == Flatten([i \in 1..Len(methods) |-> methods[i].value])

SeqToSet(q) == {q[i] : i \in 1..Len(q)}

\* ------------------------------------------------------------ C1
\* C1: every entry of the classes map has its key equal to its ClassInfo's
\* fqcn, that fqcn is the package prefix followed by the dot-joined simple
\* names of the named class declarations enclosing the declaration that
\* created it (outer to inner, itself last), and no two entries share an fqcn.
C1_FqcnIsPackageAndNestingPath ==
    /\ Len(declOf) = Len(classes)
    /\ \A i \in 1..Len(classes) :
        /\ classes[i].key = classes[i].value.fqcn
        /\ classes[i].value.fqcn = ExpectedFqcn(declOf[i].unit, declOf[i].path)
    /\ \A i, j \in 1..Len(classes) :
        classes[i].value.fqcn = classes[j].value.fqcn => i = j

\* a nested class of a unit with a package is registered next to a class of
\* another unit, after two index_source calls
C1_Witness ==
    /\ calls = 2
    /\ pc = "idle"
    /\ \E i, j \in 1..Len(classes) :
        /\ declOf[i].unit # declOf[j].unit
        /\ Len(EnclosingClasses(declOf[i].unit, declOf[i].path, 0)) = 2
        /\ PackageDecls(declOf[i].unit) # {}

\* ------------------------------------------------------------ C2
DupFrames == {k \in 1..Len(frames) : frames[k].snap # None}

Current(k) == DictGet(classes, frames[k].snap[1].fqcn)

\* C2 as stated: while a duplicate class declaration is being walked, the
\* ClassInfo registered first is exactly as it was when the duplicate was
\* entered, its methods map included.
C2_DuplicateLeavesMethodsUnchanged ==
    \A k \in DupFrames : Current(k) = frames[k].snap[1]

\* the nodes _walk_and_index has been called on so far in this unit: the
\* nodes of the active calls and the subtrees of the children their loops
\* are done with
Entered ==
    UNION {{frames[k].path} \cup
           UNION {Subtree(unit, Append(frames[k].path, i)) :
                     i \in 1..(IF k = Len(frames) THEN frames[k].next - 1
                                ELSE frames[k].next - 2)} :
           k \in 1..Len(frames)}

\* the method-like declarations owned by the class declaration at `path`
\* that line 202 has stored by now
StoredUnder(path) ==
    {q \in Subtree(unit, path) \cap Entered :
        /\ NodeAt(Root(unit), q).type \in MethodLike
        /\ OwningClass(unit, q) = path
        /\ ~(pc = "collect" /\ q = Top.path)}

\* the MethodInfo records of `now` that `old` did not hold
Added(old, now) ==
    Flatten([i \in 1..Len(now) |->
        IF i <= Len(old)
        THEN SubSeq(now[i].value, Len(old[i].value) + 1, Len(now[i].value))
        ELSE now[i].value])

\* C2 amended: walking a duplicate declaration raises nothing and keeps the
\* first ClassInfo's identity, location and already-collected methods in
\* place, but the methods declared under the duplicate are appended to its
\* methods map.
C2_DuplicateMergesMethods ==
    \A k \in DupFrames :
        LET old == frames[k].snap[1]
            now == Current(k)
            new == Added(old.methods, now.methods)
        IN /\ ~raised
           /\ now.simple_name = old.simple_name
           /\ now.fqcn = old.fqcn
           /\ now.line = old.line
           /\ now.col = old.col
           /\ Len(old.methods) <= Len(now.methods)
           /\ \A i \in 1..Len(old.methods) :
                /\ now.methods[i].key = old.methods[i].key
                /\ IsPrefix(old.methods[i].value, now.methods[i].value)
           /\ Len(new) = Cardinality(StoredUnder(frames[k].path))
           /\ {<<new[i].name, new[i].line>> : i \in 1..Len(new)}
              = {<<NewMethodInfo(NodeAt(Root(unit), q)).name,
                   NodeAt(Root(unit), q).start[1]>> : q \in StoredUnder(frames[k].path)}

\* a duplicate declaration is being walked and a method declared under it has
\* been stored in the ClassInfo registered first
C2_Witness ==
    \E k \in DupFrames :
        /\ frames[k].snap[1].methods # <<>>
        /\ Len(AllMethods(Current(k).methods))
           > Len(AllMethods(frames[k].snap[1].methods))

\* ------------------------------------------------------------ C3
\* C3 as stated: in every MethodInfo the call records are in source occurrence
\* order, the pre-order of the method's subtree (start points increase).
C3_CallsInSourceOrder ==
    \A e \in SeqToSet(methodLog) :
        \A i, j \in 1..Len(e.info.calls) :
            i < j => e.info.calls[i].line < e.info.calls[j].line

\* ------------------------------------------------------------ C4
\* C4 as stated: every call record of a MethodInfo comes from an expression
\* whose enclosing method declaration is that MethodInfo's declaration, so
\* calls inside the methods of a nested class are not in the outer method's list.
C4_CallsFromOwnBodyOnly ==
    \A e \in SeqToSet(methodLog) :
        \A i \in 1..Len(e.info.calls) :
            EnclosingMethod(e.unit, PathOfLine(e.unit, e.info.calls[i].line)) = e.path

\* ------------------------------------------------------------ C5
JavaFiles == {i \in 1..Len(dirFiles) : dirFiles[i].java}

\* C5 as stated: index_directory never lets an exception out; when it is over
\* every .java file that could be read was passed to index_source and every
\* file that failed has its warning.
C5_BatchContinuesAfterFailure ==
    /\ dirStatus # "propagated"
    /\ dirStatus = "returned" =>
        /\ SeqToSet(passed) = {i \in JavaFiles : dirFiles[i].readable}
        /\ \A i \in JavaFiles : ~dirFiles[i].readable => i \in SeqToSet(warnings)

\* ------------------------------------------------------------ C6
\* the MethodInfo records stored for class `fqcn`, in the order stored
LogOf(fqcn) == SelectSeq(methodLog, LAMBDA e : e.fqcn = fqcn)

RECURSIVE FirstNames(_)
\* the method names of a log in the order of their first declaration
FirstNames(log) ==
    IF log = <<>> THEN <<>>
    ELSE LET front == FirstNames(SubSeq(log, 1, Len(log) - 1))
             last == log[Len(log)].info.name
         IN IF last \in SeqToSet(front) THEN front ELSE Append(front, last)

JsonOfLog(log) == [i \in 1..Len(log) |-> JsonMethod(log[i].info)]

\* the methods of a log grouped by name: names by first declaration, the
\* overloads of one name in declaration order
GroupedByName(log) ==
    LET names == FirstNames(log)
    IN Flatten([n \in 1..Len(names) |->
                   SelectSeq(log, LAMBDA e : e.info.name = names[n])])

ExportedClassesInInsertionOrder ==
    /\ Len(exported[1].classes) = Len(declOf)
    /\ \A i \in 1..Len(declOf) :
           exported[1].classes[i].fqcn = ExpectedFqcn(declOf[i].unit, declOf[i].path)

\* C6 as stated: the exported classes are in registry insertion order and each
\* class's methods array is in declaration order, each method with its calls
\* in the order of its calls list.
C6_MethodsInDeclarationOrder ==
    exported # None =>
        /\ ExportedClassesInInsertionOrder
        /\ \A i \in 1..Len(exported[1].classes) :
               exported[1].classes[i].methods
               = JsonOfLog(LogOf(exported[1].classes[i].fqcn))

\* C6 amended: the exported classes are in registry insertion order; a class's
\* methods array is grouped by method name, the names in the order of their
\* first declaration and the overloads of one name in declaration order; each
\* method's calls array is in the order of its calls list.
C6_MethodsGroupedByName ==
    exported # None =>
        /\ ExportedClassesInInsertionOrder
        /\ \A i \in 1..Len(exported[1].classes) :
               exported[1].classes[i].methods
               = JsonOfLog(GroupedByName(LogOf(exported[1].classes[i].fqcn)))

\* an export of a class whose overloads are interleaved with another method
C6_Witness ==
    /\ exported # None
    /\ \E i \in 1..Len(exported[1].classes) :
        LET log == LogOf(exported[1].classes[i].fqcn)
        IN \E a, b, c \in 1..Len(log) :
            /\ a < b /\ b < c
            /\ log[a].info.name = log[c].info.name
            /\ log[a].info.name # log[b].info.name
            /\ log[b].info.calls # <<>>

\* ------------------------------------------------------------ C7
\* the registry `old` is contained in the registry `new`: no package, class or
\* method is gone or changed, classes and methods are only added at the end
Extends(old, new) ==
    /\ old.packages \subseteq new.packages
    /\ Len(old.classes) <= Len(new.classes)
    /\ \A i \in 1..Len(old.classes) :
        LET o == old.classes[i].value
            n == new.classes[i].value
        IN /\ new.classes[i].key = old.classes[i].key
           /\ n.simple_name = o.simple_name /\ n.fqcn = o.fqcn
           /\ n.line = o.line /\ n.col = o.col
           /\ Len(o.methods) <= Len(n.methods)
           /\ \A j \in 1..Len(o.methods) :
                /\ n.methods[j].key = o.methods[j].key
                /\ IsPrefix(o.methods[j].value, n.methods[j].value)

\* C7 as stated: when index_source has raised, the registry is the same as
\* before that call.
C7_FailsAtomically ==
    raised => packages = before.packages /\ classes = before.classes

\* a step in which an exception leaves index_source
RaiseStep == raised' /\ (pc \in {"walk", "collect"} \/ calls' # calls)

\* C7 amended: index_source does not roll back. The step that raises leaves
\* the registry as the traversal had built it up to the failure, and that
\* registry contains the registry from before the call: every package, class
\* and method of before is kept, what the part of the traversal that ran
\* registered stays added.
C7_FailureKeepsPartialIndex ==
    [][RaiseStep =>
        /\ packages' = packages
        /\ classes' = classes
        /\ Extends(before', [packages |-> packages', classes |-> classes'])]_vars

\* index_source raised part-way: classes and a method registered by the failed
\* call are in the registry
C7_Witness ==
    /\ raised
    /\ Len(classes) > Len(before.classes)
    /\ \E i \in 1..Len(before.classes) :
           Len(AllMethods(classes[i].value.methods))
           > Len(AllMethods(before.classes[i].value.methods))

\* ------------------------------------------------------------ C8
NextChild == Append(Top.path, Top.next)

\* _walk_and_index is about to be called on a method or constructor
\* declaration while the nesting stack is empty
ReachesMethodOutsideClass ==
    /\ pc = "walk"
    /\ frames # <<>>
    /\ Top.next <= Len(TopNode.children)
    /\ Len(frames) < RecursionLimit
    /\ NodeAt(Root(unit), NextChild).type \in MethodLike
    /\ class_stack = <<>>

\* C8: a method or constructor declaration reached with an empty nesting
\* stack raises nothing and leaves the registry unchanged (no MethodInfo, no
\* ClassInfo); the walk goes on with the node's children.
C8_MethodOutsideClassSkipped ==
    [][ReachesMethodOutsideClass =>
        /\ ~raised'
        /\ packages' = packages
        /\ classes' = classes
        /\ methodLog' = methodLog
        /\ pc' = "walk"
        /\ class_stack' = <<>>
        /\ frames' = Append([frames EXCEPT ![Len(frames)].next = Top.next + 1],
                            [path |-> NextChild, next |-> 1, branch |-> "generic",
                             snap |-> None])]_vars

\* the walk is inside a method declaration that it reached with an empty
\* nesting stack, and is at its children
C8_Witness ==
    /\ pc = "walk"
    /\ frames # <<>>
    /\ TopNode.type \in MethodLike
    /\ class_stack = <<>>
    /\ Top.next > 1
    /\ ~raised

\* ------------------------------------------------------------ C9
\* C9: during the walk the nesting stack is exactly the named class
\* declarations that are ancestors-or-self of the node being visited, outer to
\* inner, and it is empty when index_source returns.
C9_StackMatchesLexicalScope ==
    /\ (pc \in {"walk", "collect"} /\ frames # <<>>) =>
           class_stack = EnclosingClasses(unit, Top.path, 0)
    /\ (pc \in {"idle", "dir"} /\ ~raised) => class_stack = <<>>

\* the walk is back in an outer class after the class nested in it was walked
C9_Witness ==
    /\ pc = "walk"
    /\ frames # <<>>
    /\ Len(class_stack) = 1
    /\ Top.branch = "class"
    /\ Top.next > 1
    /\ IsNamedClass(NodeAt(Root(unit), Append(Top.path, Top.next - 1)))

\* ------------------------------------------------------------ C10
\* the invocation and construction expressions of the subtree at `path`
CallNodes(path) ==
    {q \in Subtree(unit, path) :
        NodeAt(Root(unit), q).type
            \in {"method_invocation", "object_creation_expression"}}

WorklistLoopOver == pc = "collect" /\ stack = <<>>

\* C10: the worklist loop ends with an empty worklist, having popped the
\* declaration node and each of its descendants exactly once, with exactly one
\* call record per invocation or construction expression of the subtree and
\* none for any other node.
C10_WorklistVisitsEachNodeOnce ==
    /\ [](pc = "collect" =>
            /\ \A i, j \in 1..Len(visited) : visited[i] = visited[j] => i = j
            /\ SeqToSet(visited) \subseteq Subtree(unit, Top.path))
    /\ [](WorklistLoopOver =>
            /\ SeqToSet(visited) = Subtree(unit, Top.path)
            /\ Len(method_info.calls) = Cardinality(CallNodes(Top.path))
            /\ {PathOfLine(unit, method_info.calls[i].line) :
                    i \in 1..Len(method_info.calls)} = CallNodes(Top.path))
    /\ (pc = "collect" ~> WorklistLoopOver)

\* the loop is over for a method with several calls in nested expressions
C10_Witness ==
    /\ WorklistLoopOver
    /\ Len(method_info.calls) >= 3
    /\ Len(visited) > Len(method_info.calls)

====
